---------------------------- MODULE Spec2Model ----------------------------
(***************************************************************************)
(* Ticket evaluation pipeline of 3_run_ticket_test.py:                     *)
(*   base -> merge -> (merge + neg-patch) -> (merge + neg-patch + code)    *)
(* together with the skip-list persistence in pr_states.csv.               *)
(*                                                                         *)
(* Text is modelled as a sequence of one-character strings, so that the    *)
(* joins, splits and sorts of the skip list are computed as the code       *)
(* computes them.                                                          *)
(*                                                                         *)
(* Environment assumptions of the pipeline model: the git commands of      *)
(* checkout() succeed, a pom.xml exists, every subprocess terminates, the  *)
(* surefire reports written by a test run are well-formed XML, a red test  *)
(* makes `mvn test` exit non-zero, the test cases of the project have Java *)
(* identifiers as class and method names, and no patch creates a file that *)
(* .gitignore hides from git clean.                                        *)
(***************************************************************************)
EXTENDS Integers, Sequences, FiniteSets, TLC

\* ------------------------------------------------------------------ text

\* Code point of the characters the model uses (Python compares str by code point).
Ord(ch) ==
  CASE ch = "\n" -> 10
    [] ch = " "  -> 32
    [] ch = "!"  -> 33
    [] ch = "#"  -> 35
    [] ch = "*"  -> 42
    [] ch = ","  -> 44
    [] ch = "-"  -> 45
    [] ch = "."  -> 46
    [] ch = "1"  -> 49
    [] ch = "7"  -> 55
    [] ch = "="  -> 61
    [] ch = "A"  -> 65
    [] ch = "B"  -> 66
    [] ch = "D"  -> 68
    [] ch = "K"  -> 75
    [] ch = "["  -> 91
    [] ch = "]"  -> 93
    [] ch = "_"  -> 95
    [] ch = "a"  -> 97
    [] ch = "c"  -> 99
    [] ch = "d"  -> 100
    [] ch = "e"  -> 101
    [] ch = "f"  -> 102
    [] ch = "h"  -> 104
    [] ch = "i"  -> 105
    [] ch = "p"  -> 112
    [] ch = "s"  -> 115
    [] ch = "t"  -> 116
    [] ch = "x"  -> 120
    [] ch = "y"  -> 121
    [] ch = "z"  -> 122
    [] ch = "{"  -> 123
    [] ch = "}"  -> 125
    [] OTHER     -> 63

\* Python's str < str.
RECURSIVE StrLess(_, _)
StrLess(s, t) ==
  IF t = <<>> THEN FALSE
  ELSE IF s = <<>> THEN TRUE
  ELSE IF Head(s) = Head(t) THEN StrLess(Tail(s), Tail(t))
  ELSE Ord(Head(s)) < Ord(Head(t))

\* Python's tuple < tuple on (class, method) pairs.
PairLess(a, b) ==
  IF a[1] = b[1] THEN StrLess(a[2], b[2]) ELSE StrLess(a[1], b[1])

\* sorted(S) for a set of strings.
RECURSIVE SortedStrs(_)
SortedStrs(S) ==
  IF S = {} THEN <<>>
  ELSE LET m == CHOOSE x \in S : \A y \in S \ {x} : StrLess(x, y)
       IN  <<m>> \o SortedStrs(S \ {m})

\* sorted(S) for a set of (class, method) pairs.
RECURSIVE SortedPairs(_)
SortedPairs(S) ==
  IF S = {} THEN <<>>
  ELSE LET m == CHOOSE x \in S : \A y \in S \ {x} : PairLess(x, y)
       IN  <<m>> \o SortedPairs(S \ {m})

\* sorted(list) for a list of strings (duplicates kept).
RECURSIVE SortedList(_)
SortedList(l) ==
  IF l = <<>> THEN <<>>
  ELSE LET i == CHOOSE k \in 1..Len(l) :
                  \A j \in 1..Len(l) : ~StrLess(l[j], l[k])
       IN  <<l[i]>> \o SortedList(SubSeq(l, 1, i - 1) \o SubSeq(l, i + 1, Len(l)))

\* sep.join(parts)
RECURSIVE Join(_, _)
Join(parts, sep) ==
  IF parts = <<>> THEN <<>>
  ELSE IF Len(parts) = 1 THEN parts[1]
  ELSE parts[1] \o sep \o Join(Tail(parts), sep)

\* s.split(ch): always at least one fragment.
RECURSIVE SplitOn(_, _)
SplitOn(s, ch) ==
  IF \A i \in 1..Len(s) : s[i] # ch THEN <<s>>
  ELSE LET i == CHOOSE k \in 1..Len(s) :
                  s[k] = ch /\ \A j \in 1..(k - 1) : s[j] # ch
       IN  <<SubSeq(s, 1, i - 1)>> \o SplitOn(SubSeq(s, i + 1, Len(s)), ch)

\* s.replace(a, b) for single characters.
RECURSIVE ReplaceCh(_, _, _)
ReplaceCh(s, a, b) ==
  IF s = <<>> THEN <<>>
  ELSE <<IF Head(s) = a THEN b ELSE Head(s)>> \o ReplaceCh(Tail(s), a, b)

IsSpace(ch) == ch \in {" ", "\n"}

\* s.strip()
RECURSIVE LStrip(_)
LStrip(s) == IF s # <<>> /\ IsSpace(Head(s)) THEN LStrip(Tail(s)) ELSE s
RECURSIVE RStrip(_)
RStrip(s) ==
  IF s # <<>> /\ IsSpace(s[Len(s)]) THEN RStrip(SubSeq(s, 1, Len(s) - 1)) ELSE s
Strip(s) == RStrip(LStrip(s))

HasCh(s, ch) == \E i \in 1..Len(s) : s[i] = ch

StartsWith(s, ch) == s # <<>> /\ Head(s) = ch

\* f"{c}#{m}"
Token(c, m) == c \o <<"#">> \o m

SeqToSet(q) == {q[i] : i \in 1..Len(q)}

\* ------------------------------------------------------ report parser

Stats(r, f, e, s) == [run |-> r, failures |-> f, errors |-> e, skipped |-> s]

ZeroStats == Stats(0, 0, 0, 0)

\* classname.split('.')[-1]
LastSegment(classname) ==
  LET parts == SplitOn(classname, ".") IN parts[Len(parts)]

\* Variant of StripParams: only a bracketed suffix is cut off.
StripParamsBracketsOnly(name) == SplitOn(name, "[")[1]

\* name.split('{')[0].split('[')[0]
StripParams(name) == SplitOn(SplitOn(name, "{")[1], "[")[1]

\* Variant of surefire_stats: a file that does not parse is counted like the others.
RECURSIVE surefire_statsCountingAll(_)
surefire_statsCountingAll(files) ==
  IF files = <<>> THEN ZeroStats
  ELSE LET f    == Head(files)
           rest == surefire_statsCountingAll(Tail(files))
       IN  Stats(rest.run + f.tests, rest.failures + f.failures,
                 rest.errors + f.errors, rest.skipped + f.skipped)

\* surefire_stats(): sum of the root attributes of every parseable report file.
RECURSIVE surefire_stats(_)
surefire_stats(files) ==
  IF files = <<>> THEN ZeroStats
  ELSE LET f    == Head(files)
           rest == surefire_stats(Tail(files))
       IN  IF f.ok
           THEN Stats(rest.run + f.tests, rest.failures + f.failures,
                      rest.errors + f.errors, rest.skipped + f.skipped)
           ELSE rest

\* The (class, method) pairs of the marked test cases of one report file.
RedOfFile(f) ==
  { <<LastSegment(f.cases[i].classname), StripParams(f.cases[i].name)>> :
      i \in {k \in 1..Len(f.cases) : f.cases[k].failure \/ f.cases[k].error} }

\* red_tests(): every test case with a <failure> or <error> child, over all parseable files.
red_tests(files) ==
  UNION { RedOfFile(files[i]) : i \in {k \in 1..Len(files) : files[k].ok} }

\* ------------------------------------------------- skip-list persistence

\* A CSV cell that is not there (column missing from the header).
NoField == <<"<absent>">>

\* Python's None for the -Dtest filter.
None == <<"<None>">>

\* (r.get("skipped_tests", "") or "")
RawField(row) == IF row.skipped_tests = NoField THEN <<>> ELSE row.skipped_tests

HasTicket(reg, ticket) == \E i \in 1..Len(reg.rows) : reg.rows[i].ticket = ticket

FirstRow(reg, ticket) ==
  CHOOSE i \in 1..Len(reg.rows) :
    reg.rows[i].ticket = ticket /\ \A j \in 1..(i - 1) : reg.rows[j].ticket # ticket

\* Variant of SkipField: the tokens are joined with a blank.
SkipFieldBlankJoined(b) ==
  LET srt == SortedPairs(b)
  IN  Join([i \in 1..Len(srt) |-> Token(srt[i][1], srt[i][2])], <<" ">>)

\* ",".join(f"{c}#{m}" for c, m in sorted(b))
SkipField(b) ==
  LET srt == SortedPairs(b)
  IN  Join([i \in 1..Len(srt) |-> Token(srt[i][1], srt[i][2])], <<",">>)

\* Variant of write_skip: every row of the ticket gets the joined tokens.
write_skipEveryMatch(reg, ticket, b) ==
  [header |-> TRUE,
   rows   |-> [i \in 1..Len(reg.rows) |->
                IF reg.rows[i].ticket = ticket
                THEN [reg.rows[i] EXCEPT !.skipped_tests = SkipField(b)]
                ELSE [reg.rows[i] EXCEPT !.skipped_tests = RawField(reg.rows[i])]]]

\* write_skip(b) on a registry that holds the ticket: the first matching row gets the
\* joined tokens, the column is created if missing, the other rows keep their cells
\* (DictWriter writes '' for a cell the row does not have).
write_skip(reg, ticket, b) ==
  LET k == FirstRow(reg, ticket)
  IN  [header |-> TRUE,
       rows   |-> [i \in 1..Len(reg.rows) |->
                    IF i = k
                    THEN [reg.rows[i] EXCEPT !.skipped_tests = SkipField(b)]
                    ELSE [reg.rows[i] EXCEPT !.skipped_tests = RawField(reg.rows[i])]]]

\* raw_field.replace("\n", ",").split(",")
Fragments(raw) == SplitOn(ReplaceCh(raw, "\n", ","), ",")

\* frag.split("#", 1)
SplitFirst(frag) ==
  LET i == CHOOSE k \in 1..Len(frag) :
             frag[k] = "#" /\ \A j \in 1..(k - 1) : frag[j] # "#"
  IN  <<SubSeq(frag, 1, i - 1), SubSeq(frag, i + 1, Len(frag))>>

\* Variant of WellFormed: a fragment that starts with "#" is not taken for a comment.
WellFormedKeepingComments(frag) == frag # <<>> /\ HasCh(frag, "#")

\* not (not frag or frag.startswith("#") or "#" not in frag)
WellFormed(frag) == frag # <<>> /\ ~StartsWith(frag, "#") /\ HasCh(frag, "#")

\* The body of load_skip() for the row found.
ParseSkip(raw) ==
  LET fr == Fragments(raw)
  IN  { SplitFirst(Strip(fr[i])) : i \in {k \in 1..Len(fr) : WellFormed(Strip(fr[k]))} }

\* load_skip() on a registry that holds the ticket.
load_skip(reg, ticket) == ParseSkip(RawField(reg.rows[FirstRow(reg, ticket)]))

\* pats of dtest(): the stripped, non-empty, well-formed fragments, in field order.
RECURSIVE Pats(_)
Pats(fr) ==
  IF fr = <<>> THEN <<>>
  ELSE (IF WellFormed(Strip(Head(fr))) THEN <<Strip(Head(fr))>> ELSE <<>>)
       \o Pats(Tail(fr))

DtestPrefix == <<"-", "D", "t", "e", "s", "t", "=">>

\* Variant of dtest: the patterns are emitted without the "!" that makes them exclusions.
dtestUnnegated(reg, ticket) ==
  IF ~HasTicket(reg, ticket) THEN None
  ELSE LET pats == SortedList(Pats(Fragments(RawField(reg.rows[FirstRow(reg, ticket)]))))
       IN  IF pats = <<>> THEN None
           ELSE DtestPrefix \o Join(<<<<"*">>>> \o pats, <<",">>)

\* Variant of dtest: the patterns are emitted in the order of the cell, not sorted.
dtestUnsorted(reg, ticket) ==
  IF ~HasTicket(reg, ticket) THEN None
  ELSE LET pats == Pats(Fragments(RawField(reg.rows[FirstRow(reg, ticket)])))
       IN  IF pats = <<>> THEN None
           ELSE DtestPrefix \o
                Join(<<<<"*">>>> \o [i \in 1..Len(pats) |-> <<"!">> \o pats[i]], <<",">>)

\* dtest(): the -Dtest filter from the ticket's row of pr_states.csv, or None.
dtest(reg, ticket) ==
  IF ~HasTicket(reg, ticket) THEN None
  ELSE LET pats == SortedList(Pats(Fragments(RawField(reg.rows[FirstRow(reg, ticket)]))))
       IN  IF pats = <<>> THEN None
           ELSE DtestPrefix \o
                Join(<<<<"*">>>> \o [i \in 1..Len(pats) |-> <<"!">> \o pats[i]], <<",">>)

\* ------------------------------------------------------------ environment

TICKET == "T1"

\* before_commit and merge_commit of the ticket's row.
BASE == "base1"

MERGE == "merge1"

\* Number of test cases of the project under test.
NumCases == 2

\* The test cases the build tool knows; `marker` is the child element a red run of the
\* case gets in the report (<failure> or <error>).
AllCases ==
  << [classname |-> <<"p", ".", "A">>, name |-> <<"x">>,                marker |-> "failure"],
     [classname |-> <<"p", ".", "B">>, name |-> <<"y", "[", "1", "]">>, marker |-> "error"],
     [classname |-> <<"p", ".", "A">>, name |-> <<"z", "{", "1", "}">>, marker |-> "failure"] >>

Cases == 1..NumCases

Identity(i) == <<LastSegment(AllCases[i].classname), StripParams(AllCases[i].name)>>

\* The Class#method patterns a -Dtest expression excludes (the "!"-prefixed items).
ExcludedTokens(flt) ==
  IF flt = None THEN {}
  ELSE LET items == SplitOn(SubSeq(flt, Len(DtestPrefix) + 1, Len(flt)), ",")
       IN  { Tail(items[i]) : i \in {k \in 1..Len(items) : StartsWith(items[k], "!")} }

\* The cases `mvn test` executes under a filter.
Selected(flt) ==
  { i \in Cases : Token(Identity(i)[1], Identity(i)[2]) \notin ExcludedTokens(flt) }

\* The report file surefire writes for one class: the cases run, the red ones marked.
ReportOf(cls, ran, red) ==
  LET mine == { i \in ran : AllCases[i].classname = cls }
      ord  == SortedStrs({ AllCases[i].name : i \in mine })
      caseOf(nm) == CHOOSE i \in mine : AllCases[i].name = nm
  IN  [ok       |-> TRUE,
       tests    |-> Cardinality(mine),
       failures |-> Cardinality({ i \in mine \cap red : AllCases[i].marker = "failure" }),
       errors   |-> Cardinality({ i \in mine \cap red : AllCases[i].marker = "error" }),
       skipped  |-> 0,
       cases    |-> [k \in 1..Len(ord) |->
                      [classname |-> cls, name |-> ord[k],
                       failure |-> caseOf(ord[k]) \in red /\ AllCases[caseOf(ord[k])].marker = "failure",
                       error   |-> caseOf(ord[k]) \in red /\ AllCases[caseOf(ord[k])].marker = "error"]]]

\* target/surefire-reports after `mvn test` ran the cases `ran` of which `red` went red.
MvnReports(ran, red) ==
  LET classes == SortedStrs({ AllCases[i].classname : i \in ran })
  IN  [k \in 1..Len(classes) |-> ReportOf(classes[k], ran, red)]

\* A report tree left behind by an earlier build in the working tree.
StaleReports == MvnReports({1}, {1})

Row(t, b, m, f) == [ticket |-> t, before_commit |-> b, merge_commit |-> m, skipped_tests |-> f]

OtherRow(f) == Row("T2", "base2", "merge2", f)

\* The contents pr_states.csv can have when the pipeline starts: the ticket unknown, the
\* skipped_tests column not yet created, an empty cell, or the cell an earlier
\* evaluation wrote (one token, or two).
InitRegistries ==
  { [header |-> FALSE, rows |-> <<OtherRow(NoField)>>],
    [header |-> FALSE, rows |-> <<OtherRow(NoField), Row(TICKET, BASE, MERGE, NoField)>>],
    [header |-> TRUE,  rows |-> <<Row(TICKET, BASE, MERGE, <<>>), OtherRow(<<"B", "#", "y">>)>>],
    [header |-> TRUE,  rows |-> <<OtherRow(<<>>), Row(TICKET, BASE, MERGE, <<"A", "#", "x">>)>>],
    [header |-> TRUE,
     rows   |-> <<Row(TICKET, BASE, MERGE, <<"A", "#", "x", ",", "B", "#", "y">>)>>] }

Stages == <<"base", "merge", "neg_patch", "code_patch">>

StageSet == SeqToSet(Stages)

\* ------------------------------------------------------------------ state

VARIABLES
  args,        \* the command line: ai (--ai), patch ("none" or "given"), jdk (a JDK matches)
  pc,          \* the statement the script is at
  stage,       \* the argument of the run() in progress
  tree,        \* project_repo: the revision checked out, and the patches whose edits of
               \* tracked files (modified) and whose new files (untracked) are in it
  targets,     \* the surefire report files under the target directories
  registry,    \* pr_states.csv
  skip,        \* the script's variable skip
  result,      \* per stage, what run() returned (<<>> until it has)
  res_t,       \* return code of the test subprocess of the run() in progress
  neg_ok,
  code_ok,
  summary,     \* the printed summary block (<<>> until printed)
  exitStatus,  \* the exit status of the process (<<>> while it runs)
  trace,       \* history: the steps performed, in order
  filterUsed,  \* history: per stage, the -Dtest argument its test step was given
  redAt,       \* history: per stage, the identities that went red in its test step
  applyRc,     \* history: per patch, the exit status of git apply
  installRc,   \* history: per stage, the exit status of its install step
  call,        \* one call of a library function on its own: [op, in, out] (Idle in a run)
  batch        \* the batch driver 4_run_all_tickets.py (Idle in a run of one ticket)

vars == <<args, pc, stage, tree, targets, registry, skip, result, res_t, neg_ok,
          code_ok, summary, exitStatus, trace, filterUsed, redAt, applyRc, installRc,
          call, batch>>

\* The value of a variable that takes no part in the specification at hand.
Idle == [op |-> "idle"]

Init ==
  /\ args \in [ai : BOOLEAN, patch : {"none", "given"}, jdk : BOOLEAN]
  /\ pc = "jdk_home"
  /\ stage = "none"
  /\ \/ tree = [rev |-> MERGE, modified |-> {}, untracked |-> {}] /\ targets = <<>>
     \/ /\ tree = [rev |-> MERGE, modified |-> {"leftover"}, untracked |-> {"leftover"}]
        /\ targets = StaleReports
  /\ registry \in InitRegistries
  /\ skip = {}
  /\ result = [s \in StageSet |-> <<>>]
  /\ res_t = <<>>
  /\ neg_ok = FALSE
  /\ code_ok = FALSE
  /\ summary = <<>>
  /\ exitStatus = <<>>
  /\ trace = <<>>
  /\ filterUsed = [s \in StageSet |-> <<>>]
  /\ redAt = [s \in StageSet |-> <<>>]
  /\ applyRc = [p \in {"neg", "code"} |-> <<>>]
  /\ installRc = [s \in StageSet |-> <<>>]
  /\ call = Idle
  /\ batch = Idle

Log(ev, arg) == trace' = Append(trace, <<ev, arg>>)

\* An uncaught exception or sys.exit(message): the interpreter exits with status 1.
Die(how) == pc' = how /\ exitStatus' = <<1>>

\* ------------------------------------------------------------ start-up

\* Variant of JdkHome: a missing JDK is not noticed and the script goes on.
JdkHomeUnchecked ==
  /\ pc = "jdk_home"
  /\ pc' = "code_patch"
  /\ UNCHANGED <<call, batch, args, stage, tree, targets, registry, skip, result, res_t,
                 neg_ok, code_ok, summary, exitStatus, trace, filterUsed, redAt, applyRc,
                 installRc>>

\* JAVA_HOME = jdk_home(JAVA_MAJOR): FileNotFoundError when no directory matches.
JdkHome ==
  /\ pc = "jdk_home"
  /\ IF args.jdk THEN pc' = "code_patch" /\ UNCHANGED exitStatus ELSE Die("crashed")
  /\ UNCHANGED <<call, batch, args, stage, tree, targets, registry, skip, result, res_t, neg_ok,
                 code_ok, summary, trace, filterUsed, redAt, applyRc, installRc>>

\* ROOT / PATCH_STR: Path.__truediv__ raises TypeError for None.
PathJoinOk(patch) == patch # "none"

\* CODE_PATCH = ROOT / PATCH_STR
CodePatchPath ==
  /\ pc = "code_patch"
  /\ IF PathJoinOk(args.patch)
     THEN pc' = "read_commits" /\ UNCHANGED exitStatus
     ELSE Die("crashed")
  /\ UNCHANGED <<call, batch, args, stage, tree, targets, registry, skip, result, res_t, neg_ok,
                 code_ok, summary, trace, filterUsed, redAt, applyRc, installRc>>

\* Variant of ReadCommits: the flow takes the full-mode branch whatever AI_MODE is.
ReadCommitsIgnoringAi ==
  /\ pc = "read_commits"
  /\ IF HasTicket(registry, TICKET)
     THEN pc' = "checkout" /\ stage' = "base" /\ UNCHANGED exitStatus
     ELSE Die("aborted") /\ UNCHANGED stage
  /\ UNCHANGED <<call, batch, args, tree, targets, registry, skip, result, res_t, neg_ok,
                 code_ok, summary, trace, filterUsed, redAt, applyRc, installRc>>

\* BASE, MERGE = read_commits(TICKET), then the branch on AI_MODE.
ReadCommits ==
  /\ pc = "read_commits"
  /\ IF HasTicket(registry, TICKET)
     THEN /\ IF args.ai THEN pc' = "load_skip" /\ UNCHANGED stage
                        ELSE pc' = "checkout" /\ stage' = "base"
          /\ UNCHANGED exitStatus
     ELSE Die("aborted") /\ UNCHANGED stage
  /\ UNCHANGED <<call, batch, args, tree, targets, registry, skip, result, res_t, neg_ok,
                 code_ok, summary, trace, filterUsed, redAt, applyRc, installRc>>

\* ------------------------------------------------------------- checkout

\* git reset --hard: the edits of tracked files are dropped.
git_reset_hard(t) == [t EXCEPT !.modified = {}]

\* git clean -fd: the untracked files and directories are removed.
git_clean_fd(t) == [t EXCEPT !.untracked = {}]

\* git checkout ref
git_checkout(t, ref) == [t EXCEPT !.rev = ref]

\* Variant of checkout: git clean -fd is left out.
checkoutWithoutClean(t, ref) == git_checkout(git_reset_hard(t), ref)

\* git("reset", "--hard"); git("clean", "-fd"); git("checkout", ref)
checkout(t, ref) == git_checkout(git_clean_fd(git_reset_hard(t)), ref)

\* Variant of RefOf: the base stage is given the merge revision too.
RefOfAlwaysMerge(s) == MERGE

\* The revision each stage is run on.
RefOf(s) == IF s = "base" THEN BASE ELSE MERGE

\* checkout(BASE) / checkout(MERGE) / the checkout(MERGE) before the patches.
Checkout ==
  /\ pc = "checkout"
  /\ tree' = checkout(tree, RefOf(stage))
  /\ Log("checkout", RefOf(stage))
  /\ pc' = IF stage = "neg_patch" THEN "apply_neg" ELSE "clean"
  /\ UNCHANGED <<call, batch, args, stage, targets, registry, skip, result, res_t, neg_ok,
                 code_ok, summary, exitStatus, filterUsed, redAt, applyRc, installRc>>

\* ---------------------------------------------------------------- run()

ExitCodes == {0, 1}

\* The statement after run(stage) in the flow.
AfterRun(s) ==
  CASE s \in {"base", "merge"} -> "red_tests"
    [] s = "neg_patch"         -> "apply_code"
    [] OTHER                   -> "summary"

\* clean_targets(): every target directory is removed.
clean_targets(files) == <<>>

Clean ==
  /\ pc = "clean"
  /\ targets' = clean_targets(targets)
  /\ Log("clean", stage)
  /\ pc' = "install"
  /\ UNCHANGED <<call, batch, args, stage, tree, registry, skip, result, res_t, neg_ok,
                 code_ok, summary, exitStatus, filterUsed, redAt, applyRc, installRc>>

\* Variant of InstallAborts: the test step runs whatever the install step returned.
InstallNeverAborts(rc) == FALSE

\* if res_i.returncode != 0: return res_i.returncode, dict(run=0, ...)
InstallAborts(rc) == rc # 0

\* mvn -B clean install -DskipTests=true: no surefire report is written.
Install ==
  /\ pc = "install"
  /\ \E rc \in ExitCodes :
       /\ installRc' = [installRc EXCEPT ![stage] = <<rc>>]
       /\ IF InstallAborts(rc)
          THEN /\ result' = [result EXCEPT ![stage] = <<[rc |-> rc, st |-> ZeroStats]>>]
               /\ pc' = AfterRun(stage)
          ELSE /\ pc' = "test"
               /\ UNCHANGED result
  /\ Log("install", stage)
  /\ UNCHANGED <<call, batch, args, stage, tree, targets, registry, skip, res_t, neg_ok,
                 code_ok, summary, exitStatus, filterUsed, redAt, applyRc>>

\* The exit statuses `mvn test` can end with: non-zero when a test went red (surefire
\* fails the build on a red test), any status otherwise (the build can fail before or
\* after the tests).
TestExitCodes(red) == IF red = {} THEN ExitCodes ELSE ExitCodes \ {0}

\* mvn -B test -DfailIfNoTests=false [dtest()]: the selected cases run, any of them may
\* go red.
Test ==
  /\ pc = "test"
  /\ filterUsed' = [filterUsed EXCEPT ![stage] = <<dtest(registry, TICKET)>>]
  /\ \E red \in SUBSET Selected(dtest(registry, TICKET)) : \E rc \in TestExitCodes(red) :
       /\ targets' = MvnReports(Selected(dtest(registry, TICKET)), red)
       /\ redAt' = [redAt EXCEPT ![stage] = <<{ Identity(i) : i \in red }>>]
       /\ res_t' = <<rc>>
  /\ Log("test", stage)
  /\ pc' = "collect"
  /\ UNCHANGED <<call, batch, args, stage, tree, registry, skip, result, neg_ok,
                 code_ok, summary, exitStatus, applyRc, installRc>>

\* stats = surefire_stats(); return res_t.returncode, stats
Collect ==
  /\ pc = "collect"
  /\ result' = [result EXCEPT ![stage] = <<[rc |-> res_t[1], st |-> surefire_stats(targets)]>>]
  /\ res_t' = <<>>
  /\ Log("collect", stage)
  /\ pc' = AfterRun(stage)
  /\ UNCHANGED <<call, batch, args, stage, tree, targets, registry, skip, neg_ok,
                 code_ok, summary, exitStatus, filterUsed, redAt, applyRc, installRc>>

\* ------------------------------------------------------------ skip list

\* Variant of SkipAfter: the merge stage's red tests replace the base stage's (= for |=).
SkipAfterOverwriting(s, old, red) == red

\* skip = red_tests()   (after base)   /   skip |= red_tests()   (after merge)
SkipAfter(s, old, red) == IF s = "base" THEN red ELSE old \cup red

RedTests ==
  /\ pc = "red_tests"
  /\ skip' = SkipAfter(stage, skip, red_tests(targets))
  /\ Log("red_tests", stage)
  /\ IF stage = "base"
     THEN pc' = "checkout" /\ stage' = "merge"
     ELSE pc' = "write_skip" /\ UNCHANGED stage
  /\ UNCHANGED <<call, batch, args, tree, targets, registry, result, res_t, neg_ok,
                 code_ok, summary, exitStatus, filterUsed, redAt, applyRc, installRc>>

\* write_skip(skip)
WriteSkip ==
  /\ pc = "write_skip"
  /\ IF HasTicket(registry, TICKET)
     THEN /\ registry' = write_skip(registry, TICKET, skip)
          /\ Log("write_skip", TICKET)
          /\ pc' = "checkout" /\ stage' = "neg_patch"
          /\ UNCHANGED exitStatus
     ELSE Die("aborted") /\ UNCHANGED <<registry, trace, stage>>
  /\ UNCHANGED <<call, batch, args, tree, targets, skip, result, res_t, neg_ok,
                 code_ok, summary, filterUsed, redAt, applyRc, installRc>>

\* Variant of LoadSkip: fast mode writes the set it loaded back to the registry.
LoadSkipAndPersist ==
  /\ pc = "load_skip"
  /\ IF HasTicket(registry, TICKET)
     THEN /\ skip' = load_skip(registry, TICKET)
          /\ registry' = write_skip(registry, TICKET, load_skip(registry, TICKET))
          /\ Log("load_skip", TICKET)
          /\ pc' = "checkout" /\ stage' = "neg_patch"
          /\ UNCHANGED exitStatus
     ELSE Die("aborted") /\ UNCHANGED <<skip, registry, trace, stage>>
  /\ UNCHANGED <<call, batch, args, tree, targets, result, res_t, neg_ok,
                 code_ok, summary, filterUsed, redAt, applyRc, installRc>>

\* skip = load_skip()
LoadSkip ==
  /\ pc = "load_skip"
  /\ IF HasTicket(registry, TICKET)
     THEN /\ skip' = load_skip(registry, TICKET)
          /\ Log("load_skip", TICKET)
          /\ pc' = "checkout" /\ stage' = "neg_patch"
          /\ UNCHANGED exitStatus
     ELSE Die("aborted") /\ UNCHANGED <<skip, trace, stage>>
  /\ UNCHANGED <<call, batch, args, tree, targets, registry, result, res_t, neg_ok,
                 code_ok, summary, filterUsed, redAt, applyRc, installRc>>

\* -------------------------------------------------------------- patches

\* git apply --ignore-whitespace: all of the patch or nothing of it.
git_apply(t, p, rc) ==
  IF rc = 0
  THEN [t EXCEPT !.modified = @ \cup {p}, !.untracked = @ \cup {p}]
  ELSE t

\* apply_patch(p): returncode == 0
apply_patch(rc) == rc = 0

\* neg_ok = apply_patch(PATCH_NEG)
ApplyNeg ==
  /\ pc = "apply_neg"
  /\ \E rc \in ExitCodes :
       /\ tree' = git_apply(tree, "neg", rc)
       /\ applyRc' = [applyRc EXCEPT !["neg"] = <<rc>>]
       /\ neg_ok' = apply_patch(rc)
  /\ Log("apply", "neg")
  /\ pc' = "clean"
  /\ UNCHANGED <<call, batch, args, stage, targets, registry, skip, result, res_t,
                 code_ok, summary, exitStatus, filterUsed, redAt, installRc>>

\* Variant of CodePatchWanted: the neg_ok conjunct is missing.
CodePatchWantedWithoutNeg(n, exists) == exists

\* if neg_ok and CODE_PATCH and CODE_PATCH.exists():
CodePatchWanted(n, exists) == n /\ exists

\* apply_patch(CODE_PATCH); code_ok = True     (the value apply_patch returns is dropped)
CodeOkAfterApply(rc) == TRUE

\* code_ok = False; if ...: apply_patch(CODE_PATCH); code_ok = True
ApplyCode ==
  /\ pc = "apply_code"
  /\ \E exists \in BOOLEAN :
       IF CodePatchWanted(neg_ok, exists)
       THEN \E rc \in ExitCodes :
              /\ tree' = git_apply(tree, "code", rc)
              /\ applyRc' = [applyRc EXCEPT !["code"] = <<rc>>]
              /\ code_ok' = CodeOkAfterApply(rc)
              /\ Log("apply", "code")
       ELSE /\ code_ok' = FALSE
            /\ UNCHANGED <<tree, applyRc, trace>>
  /\ pc' = "clean" /\ stage' = "code_patch"
  /\ UNCHANGED <<call, batch, args, targets, registry, skip, result, res_t, neg_ok,
                 summary, exitStatus, filterUsed, redAt, installRc>>

\* -------------------------------------------------------------- summary

Verdict(rc) == IF rc = 0 THEN "PASS" ELSE "FAIL"

\* One line of the summary block.
SummaryLine(s) ==
  IF args.ai /\ s \in {"base", "merge"}
  THEN [status |-> "SKIP", st |-> ZeroStats]
  ELSE [status |-> Verdict(result[s][1].rc), st |-> result[s][1].st]

Summary ==
  /\ pc = "summary"
  /\ summary' = <<[base  |-> SummaryLine("base"),
                   merge |-> SummaryLine("merge"),
                   neg   |-> SummaryLine("neg_patch"),
                   code  |-> SummaryLine("code_patch"),
                   neg_applied  |-> neg_ok,
                   code_applied |-> code_ok]>>
  /\ Log("summary", TICKET)
  /\ pc' = "exit"
  /\ UNCHANGED <<call, batch, args, stage, tree, targets, registry, skip, result, res_t, neg_ok,
                 code_ok, exitStatus, filterUsed, redAt, applyRc, installRc>>

\* Variant of ExitCode: a failed stage is propagated into the exit status.
ExitCodeFromStages == IF \E s \in StageSet : result[s] # <<>> /\ result[s][1].rc # 0 THEN 1 ELSE 0

\* sys.exit(0)
ExitCode == 0

Exit ==
  /\ pc = "exit"
  /\ exitStatus' = <<ExitCode>>
  /\ pc' = "done"
  /\ UNCHANGED <<call, batch, args, stage, tree, targets, registry, skip, result, res_t, neg_ok,
                 code_ok, summary, trace, filterUsed, redAt, applyRc, installRc>>

\* ------------------------------------------------------- specification

Next ==
  \/ JdkHome
  \/ CodePatchPath
  \/ ReadCommits
  \/ Checkout
  \/ Clean
  \/ Install
  \/ Test
  \/ Collect
  \/ RedTests
  \/ WriteSkip
  \/ LoadSkip
  \/ ApplyNeg
  \/ ApplyCode
  \/ Summary
  \/ Exit

Spec == Init /\ [][Next]_vars

Terminated == pc \in {"done", "crashed", "aborted"}

\* ------------------------------------------------------------ properties

HasEvent(ev, arg) == \E i \in 1..Len(trace) : trace[i] = <<ev, arg>>

\* The identities that went red in stage s (none when its test step did not run).
RedIn(s) == IF redAt[s] = <<>> THEN {} ELSE redAt[s][1]

Persisted == HasEvent("write_skip", TICKET)

TokensOf(S) == { Token(id[1], id[2]) : id \in S }

\* C1: after a full-mode run has persisted, the skip list stored in the ticket's row
\* holds exactly the identities that were red in the base stage or in the merge stage
\* of that run.
C1_StoredSkipIsUnionOfRed ==
  (~args.ai /\ Persisted) =>
     load_skip(registry, TICKET) = RedIn("base") \cup RedIn("merge")

\* A finished full-mode run in which base and merge each contributed a different red test.
C1_Witness ==
  /\ pc = "done" /\ ~args.ai /\ Persisted
  /\ RedIn("base") = {Identity(1)}
  /\ RedIn("merge") = {Identity(2)}
  /\ load_skip(registry, TICKET) = {Identity(1), Identity(2)}

\* C2: the two flags of the summary record whether each patch applied cleanly: neg is
\* True iff git apply of the negative patch exited 0, code is True iff the code patch
\* was attempted and its git apply exited 0.
C2_FlagsRecordCleanApply ==
  summary # <<>> =>
     /\ summary[1].neg_applied  <=> (applyRc["neg"] = <<0>>)
     /\ summary[1].code_applied <=> (applyRc["code"] = <<0>>)

NegFailed == applyRc["neg"] # <<>> /\ applyRc["neg"] # <<0>>

StageRan(s) ==
  /\ HasEvent("clean", s) /\ HasEvent("install", s)
  /\ result[s] # <<>>

\* C3: whenever git apply of the negative patch exits non-zero, in either mode: the
\* pipeline goes on, the neg_patch stage is run, git apply is never invoked for the code
\* patch, and the summary reports neg False and code False.
C3_NegFailureSkipsCodePatch ==
  NegFailed =>
     /\ pc \in {"clean", "install", "test", "collect", "apply_code", "summary", "exit", "done"}
     /\ applyRc["code"] = <<>> /\ ~HasEvent("apply", "code")
     /\ "code" \notin tree.modified \cup tree.untracked
     /\ (pc \in {"apply_code", "summary", "exit", "done"} \/ stage = "code_patch")
           => StageRan("neg_patch")
     /\ pc \in {"exit", "done"} =>
           /\ summary # <<>>
           /\ summary[1].neg_applied = FALSE
           /\ summary[1].code_applied = FALSE

\* A finished run whose negative patch failed to apply and whose neg_patch stage ran tests.
C3_Witness ==
  /\ pc = "done" /\ NegFailed
  /\ filterUsed["neg_patch"] # <<>>
  /\ summary[1].neg_applied = FALSE /\ summary[1].code_applied = FALSE

\* C4: started without a code-patch argument (on a machine with a matching JDK, for a
\* registered ticket) the pipeline does not abort: it runs its stages, never attempts a
\* code-patch application, and reports the code flag False.
C4_PatchArgumentOptional ==
  (args.patch = "none" /\ args.jdk /\ HasTicket(registry, TICKET)) =>
     /\ pc \notin {"crashed", "aborted"}
     /\ applyRc["code"] = <<>>
     /\ (summary # <<>> => summary[1].code_applied = FALSE)

\* C5: in a full-mode run every test step of the neg_patch and code_patch stages gets a
\* filter that selects everything and excludes exactly the members of the persisted skip
\* set, each as Class#method, and gets no filter when the set is empty.
C5_LaterStagesExcludeSkipSet ==
  ~args.ai =>
    \A s \in {"neg_patch", "code_patch"} :
      filterUsed[s] # <<>> =>
        LET flt == filterUsed[s][1]
        IN  /\ Persisted
            /\ IF skip = {}
               THEN flt = None
               ELSE /\ flt # None
                    /\ SubSeq(flt, 1, Len(DtestPrefix) + 1) = DtestPrefix \o <<"*">>
                    /\ ExcludedTokens(flt) = TokensOf(skip)
                    /\ Selected(flt) = { i \in Cases : Identity(i) \notin skip }

\* Scenario A: base red = {A#x}, merge all green, both later stages ran their tests.
C5_Witness ==
  /\ pc = "done" /\ ~args.ai
  /\ RedIn("base") = {Identity(1)} /\ redAt["merge"] = <<{}>>
  /\ filterUsed["neg_patch"] = filterUsed["code_patch"]
  /\ filterUsed["code_patch"] # <<>>
  /\ ExcludedTokens(filterUsed["code_patch"][1]) = {<<"A", "#", "x">>}

ModeStages == IF args.ai THEN {"neg_patch", "code_patch"} ELSE StageSet

Started == trace # <<>>

\* C7: once the pipeline has started, no install or test exit status and no patch outcome
\* aborts it: it is always at a statement of the flow, and when it ends every stage of
\* its mode has been attempted, the summary has been printed with FAIL for exactly the
\* stages of non-zero status, and the process exit status is 0.
C7_StageFailureIsData ==
  Started =>
    /\ pc \in {"checkout", "clean", "install", "test", "collect", "red_tests",
               "write_skip", "apply_neg", "apply_code", "summary", "exit", "done"}
    /\ (exitStatus # <<>> => pc = "done" /\ exitStatus = <<0>>)
    /\ pc = "done" =>
         /\ \A s \in ModeStages : StageRan(s)
         /\ summary # <<>>
         /\ summary[1].neg.status  = Verdict(result["neg_patch"][1].rc)
         /\ summary[1].code.status = Verdict(result["code_patch"][1].rc)
         /\ ~args.ai => /\ summary[1].base.status  = Verdict(result["base"][1].rc)
                        /\ summary[1].merge.status = Verdict(result["merge"][1].rc)

\* A finished full-mode run in which every stage and the negative patch failed.
C7_Witness ==
  /\ pc = "done" /\ ~args.ai /\ exitStatus = <<0>>
  /\ \A s \in StageSet : result[s] # <<>> /\ result[s][1].rc # 0
  /\ installRc["base"] = <<1>> /\ installRc["neg_patch"] = <<0>>
  /\ NegFailed
  /\ summary[1].base.status = "FAIL" /\ summary[1].code.status = "FAIL"

StepNames == <<"clean", "install", "test", "collect">>

\* The steps of stage s, in the order they were performed.
StepsIn(tr, s) ==
  SelectSeq(tr, LAMBDA e : e[2] = s /\ e[1] \in {"clean", "install", "test", "collect"})

\* The first n steps of a run of stage s.
StepsOf(s, n) == [k \in 1..n |-> <<StepNames[k], s>>]

IsPrefix(a, b) == Len(a) <= Len(b) /\ SubSeq(b, 1, Len(a)) = a

InstallFailed(s) == installRc[s] # <<>> /\ installRc[s] # <<0>>

\* C8: within a stage the steps are Clean, Install, Test, Collect, each at most once and
\* in that order; when Install exits non-zero the stage returns that status with all four
\* statistics zero and its Test step never runs, and the later stages still run.
C8_StageStepsAndInstallFailure ==
  \A s \in StageSet :
    LET steps == StepsIn(trace, s)
    IN  /\ Len(steps) <= 4 /\ steps = StepsOf(s, Len(steps))
        /\ InstallFailed(s) =>
             /\ steps = StepsOf(s, 2)
             /\ filterUsed[s] = <<>>
             /\ result[s] = <<[rc |-> installRc[s][1], st |-> ZeroStats]>>
        /\ (result[s] # <<>> /\ ~InstallFailed(s)) => steps = StepsOf(s, 4)
        /\ (pc = "done" /\ s \in ModeStages) => Len(steps) >= 2

\* A finished run whose base install failed while the merge stage ran its tests.
C8_Witness ==
  /\ pc = "done"
  /\ InstallFailed("base") /\ result["base"][1].st = ZeroStats
  /\ StepsIn(trace, "merge") = StepsOf("merge", 4)
  /\ result["merge"][1].st.run > 0

InStage == pc \in {"clean", "install", "test", "collect"}

\* The patches git apply put on the tree since the last checkout.
AppliedSinceCheckout ==
  IF stage \in {"base", "merge"} THEN {}
  ELSE { p \in {"neg", "code"} : applyRc[p] = <<0>> }

\* C9: while a stage runs, the working tree holds the revision the stage asked for and
\* exactly the patches applied since the last checkout: none in base and merge, at most
\* the negative patch in neg_patch, at most negative and code patch in code_patch;
\* nothing an earlier stage or an earlier run left in the tree is present.
C9_TreeHoldsRequestedRevision ==
  InStage =>
    /\ tree.rev = (IF stage = "base" THEN BASE ELSE MERGE)
    /\ tree.modified = AppliedSinceCheckout
    /\ tree.untracked = AppliedSinceCheckout
    /\ stage \in {"base", "merge"} => tree.modified \cup tree.untracked = {}
    /\ stage = "neg_patch" => tree.modified \cup tree.untracked \subseteq {"neg"}
    /\ stage = "code_patch" => tree.modified \cup tree.untracked \subseteq {"neg", "code"}

\* The base stage starting on a clean base revision although the run found the tree
\* patched and with old reports.
C9_Witness ==
  /\ pc = "clean" /\ stage = "base"
  /\ targets = StaleReports
  /\ tree = [rev |-> BASE, modified |-> {}, untracked |-> {}]

\* The orchestrator's view of the history: of each run only its entry (the clean step).
Flow(tr) == SelectSeq(tr, LAMBDA e : e[1] \notin {"install", "test", "collect"})

\* run(stage), as it shows in Flow.
RunOf(s) == <<"clean", s>>

FullFlow(withCode) ==
  << <<"checkout", BASE>>, RunOf("base"), <<"red_tests", "base">>,
     <<"checkout", MERGE>>, RunOf("merge"), <<"red_tests", "merge">>,
     <<"write_skip", TICKET>>,
     <<"checkout", MERGE>>, <<"apply", "neg">>, RunOf("neg_patch") >>
  \o (IF withCode THEN << <<"apply", "code">> >> ELSE <<>>)
  \o << RunOf("code_patch"), <<"summary", TICKET>> >>

\* Every step of a run directly follows the step before it of the same run.
RunsContiguous ==
  \A i \in 1..Len(trace) :
    /\ trace[i][1] = "install" => i > 1 /\ trace[i - 1] = <<"clean", trace[i][2]>>
    /\ trace[i][1] = "test"    => i > 1 /\ trace[i - 1] = <<"install", trace[i][2]>>
    /\ trace[i][1] = "collect" => i > 1 /\ trace[i - 1] = <<"test", trace[i][2]>>

\* C10: in full mode the events occur in the order checkout(base), run(base), collect
\* red, checkout(merge), run(merge), collect red, persist, checkout(merge), apply(neg),
\* run(neg_patch), optionally apply(code), run(code_patch); one at a time, a run's steps
\* never interleaved with anything else.
C10_FullModeOrder ==
  ~args.ai =>
    /\ RunsContiguous
    /\ LET flow == Flow(trace)
       IN  /\ \E withCode \in BOOLEAN : IsPrefix(flow, FullFlow(withCode))
           /\ pc = "done" => flow = FullFlow(applyRc["code"] # <<>>)
    /\ InStage => tree.rev = (IF stage = "base" THEN BASE ELSE MERGE)

\* A finished full-mode run that applied the code patch.
C10_Witness ==
  /\ pc = "done" /\ ~args.ai
  /\ Flow(trace) = FullFlow(TRUE)
  /\ Len(trace) > Len(Flow(trace))

\* ---------------------------------------------------------------- fast mode

Loaded == HasEvent("load_skip", TICKET)

\* What the cell of the ticket's row denotes, cell by cell of InitRegistries.
DenotedBy(cell) ==
  CASE cell = <<"A", "#", "x", ",", "B", "#", "y">> -> {<<<<"A">>, <<"x">>>>, <<<<"B">>, <<"y">>>>}
    [] cell = <<"A", "#", "x">>                     -> {<<<<"A">>, <<"x">>>>}
    [] OTHER                                        -> {}

\* C11: in fast mode (--ai) the base revision is never checked out and no step of the
\* base or merge stage is ever executed; once loaded, the skip set is the one the
\* ticket's registry row denotes ("A#x,B#y" gives {(A,x),(B,y)}); and the summary
\* reports base and merge as SKIP with all four counters zero.
C11_FastModeSkipsBaseAndMerge ==
  args.ai =>
    /\ ~HasEvent("checkout", BASE) /\ tree.rev # BASE
    /\ \A s \in {"base", "merge"} :
         /\ result[s] = <<>> /\ filterUsed[s] = <<>> /\ redAt[s] = <<>>
         /\ \A i \in 1..Len(trace) : trace[i][2] # s
    /\ Loaded => skip = DenotedBy(registry.rows[FirstRow(registry, TICKET)].skipped_tests)
    /\ ~Loaded => skip = {}
    /\ summary # <<>> =>
         /\ summary[1].base  = [status |-> "SKIP", st |-> ZeroStats]
         /\ summary[1].merge = [status |-> "SKIP", st |-> ZeroStats]

\* A finished fast-mode run that loaded {(A,x),(B,y)} from the cell "A#x,B#y".
C11_Witness ==
  /\ args.ai /\ pc = "done" /\ summary # <<>>
  /\ skip = {<<<<"A">>, <<"x">>>>, <<<<"B">>, <<"y">>>>}
  /\ StageRan("neg_patch") /\ StageRan("code_patch")

\* ------------------------------------------------------- registry writes

\* The write_skip calls performed so far.
Writes(tr) == Len(SelectSeq(tr, LAMBDA e : e[1] = "write_skip"))

\* The events of the neg_patch and code_patch part of the flow.
LateEvents(tr) ==
  SelectSeq(tr, LAMBDA e : e[1] = "apply" \/ e[2] \in {"neg_patch", "code_patch"})

\* C12: the registry is written at most once in a run, by write_skip in full mode, after
\* the merge stage has run and its red tests were collected and before anything of the
\* neg_patch and code_patch stages; a full-mode run that ends has written exactly
\* once; in fast mode no step writes and no step changes the registry.
C12_RegistryWrittenOnceInFullMode ==
  [][ /\ registry' # registry => Writes(trace') = Writes(trace) + 1
      /\ Writes(trace') # Writes(trace) =>
           /\ ~args.ai /\ Writes(trace) = 0 /\ Writes(trace') = 1
           /\ trace[Len(trace)] = <<"red_tests", "merge">>
           /\ result["merge"] # <<>>
           /\ LateEvents(trace) = <<>>
      /\ (~args.ai /\ pc' = "done") => Writes(trace') = 1
      /\ args.ai => registry' = registry /\ Writes(trace') = 0 ]_vars

\* A finished full-mode run whose write created the skipped_tests column and stored a
\* non-empty list, with the later stages run after it.
C12_Witness ==
  /\ ~args.ai /\ pc = "done" /\ Writes(trace) = 1
  /\ skip # {}
  /\ registry.rows[FirstRow(registry, TICKET)].skipped_tests = SkipField(skip)
  /\ Len(registry.rows) = 2 /\ registry.rows[1].skipped_tests = <<>>
  /\ LateEvents(trace) # <<>>

\* ---------------------------------------------------- fatal preconditions

\* No installed JDK matches the requested major version, or pr_states.csv has no row
\* for the ticket.
FatalPrecondition == ~args.jdk \/ ~HasTicket(registry, TICKET)

\* C13: when no JDK matches or the ticket is not in the registry, the process never
\* gets past the start-up statements: nothing is checked out, applied or run, no step
\* changes the working tree, the report files or the registry, and when it has
\* stopped its exit status is 1.
C13_FatalPreconditionsAbortFirst ==
  /\ [](FatalPrecondition =>
         /\ pc \in {"jdk_home", "code_patch", "read_commits", "crashed", "aborted"}
         /\ trace = <<>> /\ stage = "none" /\ summary = <<>>
         /\ \A s \in StageSet : result[s] = <<>>
         /\ \A p \in {"neg", "code"} : applyRc[p] = <<>>
         /\ pc \in {"crashed", "aborted"} => exitStatus = <<1>>
         /\ pc \notin {"crashed", "aborted"} => exitStatus = <<>>)
  /\ [][FatalPrecondition =>
          tree' = tree /\ targets' = targets /\ registry' = registry]_vars

\* The ticket is not in the registry, a JDK and a patch argument are there, the tree is
\* dirty: read_commits has ended the process.
C13_Witness ==
  /\ args.jdk /\ ~HasTicket(registry, TICKET)
  /\ pc = "aborted" /\ exitStatus = <<1>>
  /\ tree.modified # {}

\* ================================================= the skip list on its own
\* write_skip, load_skip and dtest called directly, on registries and skip sets the
\* pipeline's own tests never produce.

\* The variables of a run of the pipeline.
runVars == <<args, pc, stage, tree, skip, result, res_t, neg_ok, code_ok, summary,
             exitStatus, trace, filterUsed, redAt, applyRc, installRc>>

\* No run of the pipeline is in progress.
NoRun ==
  /\ args = [ai |-> FALSE, patch |-> "none", jdk |-> FALSE]
  /\ pc = "idle"
  /\ stage = "none"
  /\ tree = [rev |-> MERGE, modified |-> {}, untracked |-> {}]
  /\ skip = {}
  /\ result = [s \in StageSet |-> <<>>]
  /\ res_t = <<>>
  /\ neg_ok = FALSE
  /\ code_ok = FALSE
  /\ summary = <<>>
  /\ exitStatus = <<>>
  /\ trace = <<>>
  /\ filterUsed = [s \in StageSet |-> <<>>]
  /\ redAt = [s \in StageSet |-> <<>>]
  /\ applyRc = [p \in {"neg", "code"} |-> <<>>]
  /\ installRc = [s \in StageSet |-> <<>>]

OTHER_TICKET == "T2"

\* Most fragments a cell of the skipped_tests column is assembled from.
MaxFrags == 2

\* Most identities in a set handed to write_skip.
MaxSkip == 2

\* Fragments of a cell, each with the identity it stands for (<<>>: none, the fragment
\* is empty, blank, a comment, or has no "#").
FragUniverse ==
  { [text |-> <<"A", "#", "x">>,           id |-> << <<<<"A">>, <<"x">>>> >>],
    [text |-> <<" ", "A", "#", "x">>,      id |-> << <<<<"A">>, <<"x">>>> >>],
    [text |-> <<"B", "#", "y", " ">>,      id |-> << <<<<"B">>, <<"y">>>> >>],
    [text |-> <<>>,                        id |-> <<>>],
    [text |-> <<" ">>,                     id |-> <<>>],
    [text |-> <<"#", " ", "x">>,           id |-> <<>>],
    [text |-> <<"A", "x">>,                id |-> <<>>] }

Separators == {",", "\n"}

\* A cell as somebody typed it: fragments with a comma or a newline between them.
RECURSIVE CellOf(_, _)
CellOf(frags, seps) ==
  IF Len(frags) = 1 THEN frags[1].text
  ELSE frags[1].text \o <<seps[1]>> \o CellOf(Tail(frags), Tail(seps))

\* The cells write_skip produces for the subsets of {(A,x), (B,y)}.
WrittenCells ==
  { <<>>, <<"A", "#", "x">>, <<"B", "#", "y">>, <<"A", "#", "x", ",", "B", "#", "y">> }

\* Class and method names, well-formed and not.
ClassNames == { <<"A">>, <<"B">>, <<>>, <<" ", "A">>, <<"A", "#">> }

MethodNames == { <<"x">>, <<"y">>, <<>>, <<"x", ",", "y">>, <<"x", "\n">>, <<"x", "#", "y">> }

IdentityUniverse == ClassNames \X MethodNames

\* The sets of at most n elements of U.
RECURSIVE UpTo(_, _)
UpTo(U, n) ==
  IF n = 0 THEN {{}}
  ELSE LET less == UpTo(U, n - 1)
       IN  less \union { S \union {x} : S \in less, x \in U }

\* Nothing was asked of the skip-list functions yet.
FreshCall(b, frags, seps, tickets) ==
  [op      |-> "skip_list",
   b       |-> b,          \* <<S>>: the set to hand to write_skip; <<>>: none
   frags   |-> frags,      \* how the ticket's cell was assembled (<<>>: not by hand)
   seps    |-> seps,
   tickets |-> tickets,    \* the tickets load_skip and dtest are asked about
   wrote   |-> FALSE,
   loaded  |-> [t \in tickets |-> <<>>],   \* <<S>> once load_skip(t) has returned S
   filter  |-> [t \in tickets |-> <<>>],   \* <<f>> once dtest(t) has returned f
   exits   |-> {}]         \* the calls that ended in sys.exit

\* Either a registry whose cells were edited by hand and nothing to write, or one that
\* lacks the ticket or the column, or a set to write and a registry as the pipeline
\* finds it, one with the ticket in two rows, or one without the ticket.
SkipListInit ==
  /\ NoRun /\ targets = <<>> /\ batch = Idle
  /\ \/ \E n \in 1..MaxFrags :
          \E frags \in [1..n -> FragUniverse], seps \in [1..(n - 1) -> Separators],
             other \in WrittenCells :
            /\ registry = [header |-> TRUE,
                           rows   |-> <<Row(TICKET, BASE, MERGE, CellOf(frags, seps)),
                                        OtherRow(other)>>]
            /\ call = FreshCall(<<>>, frags, seps, {TICKET, OTHER_TICKET})
     \/ /\ registry \in
             { [header |-> FALSE, rows |-> <<OtherRow(NoField)>>],
               [header |-> TRUE,  rows |-> <<OtherRow(<<"A", "#", "x">>)>>],
               [header |-> FALSE,
                rows   |-> <<OtherRow(NoField), Row(TICKET, BASE, MERGE, NoField)>>] }
        /\ call = FreshCall(<<>>, <<>>, <<>>, {TICKET, OTHER_TICKET})
     \/ \E S \in UpTo(IdentityUniverse, MaxSkip) :
          /\ registry \in { [header |-> FALSE,
                             rows   |-> <<OtherRow(NoField), Row(TICKET, BASE, MERGE, NoField)>>],
                            [header |-> TRUE,
                             rows   |-> <<Row(TICKET, BASE, MERGE, <<"B", "#", "y">>)>>],
                            [header |-> TRUE,
                             rows   |-> <<Row(TICKET, BASE, MERGE, <<"B", "#", "y">>),
                                          OtherRow(<<"A", "#", "x">>),
                                          Row(TICKET, BASE, MERGE, <<"A", "#", "x">>)>>],
                            [header |-> TRUE,
                             rows   |-> <<OtherRow(<<"A", "#", "x">>)>>] }
          /\ call = FreshCall(<<S>>, <<>>, <<>>, {TICKET})

\* write_skip(b): sys.exit when no row has the ticket.
CallWriteSkip ==
  /\ call.op = "skip_list" /\ call.b # <<>> /\ ~call.wrote
  /\ IF HasTicket(registry, TICKET)
     THEN /\ registry' = write_skip(registry, TICKET, call.b[1])
          /\ call' = [call EXCEPT !.wrote = TRUE]
     ELSE /\ call' = [call EXCEPT !.exits = @ \union {<<"write_skip", TICKET>>}]
          /\ UNCHANGED registry
  /\ UNCHANGED <<runVars, targets, batch>>

\* The set to write, if there is one, has been written.
Settled == call.op = "skip_list" /\ (call.b = <<>> \/ call.wrote)

\* load_skip() in a process started for ticket t: sys.exit when no row has the ticket.
CallLoadSkip(t) ==
  /\ Settled /\ call.loaded[t] = <<>> /\ <<"load_skip", t>> \notin call.exits
  /\ IF HasTicket(registry, t)
     THEN call' = [call EXCEPT !.loaded[t] = <<load_skip(registry, t)>>]
     ELSE call' = [call EXCEPT !.exits = @ \union {<<"load_skip", t>>}]
  /\ UNCHANGED <<runVars, targets, registry, batch>>

\* dtest() in a process started for ticket t.
CallDtest(t) ==
  /\ Settled /\ call.filter[t] = <<>>
  /\ call' = [call EXCEPT !.filter[t] = <<dtest(registry, t)>>]
  /\ UNCHANGED <<runVars, targets, registry, batch>>

SkipListNext ==
  \/ CallWriteSkip
  \/ \E t \in call.tickets : CallLoadSkip(t)
  \/ \E t \in call.tickets : CallDtest(t)

SkipListSpec == SkipListInit /\ [][SkipListNext]_vars

\* An identity the Class#method notation can carry: the class is not empty and has no
\* "#", neither name has a comma or a newline, and no white space is at the outer ends.
WellFormedIdentity(id) ==
  /\ id[1] # <<>> /\ ~HasCh(id[1], "#")
  /\ \A k \in 1..2 : ~HasCh(id[k], ",") /\ ~HasCh(id[k], "\n")
  /\ LStrip(id[1]) = id[1] /\ RStrip(id[2]) = id[2]

\* C14: for a registered ticket and a non-empty set S of well-formed identities,
\* load_skip after write_skip(S) returns exactly S; and whatever the set, neither call
\* ends the process, the cell holds the joined tokens of S, and load_skip returns every
\* well-formed member of S and at most one identity more than S has.
C14_SkipListRoundTrip ==
  (call.op = "skip_list" /\ call.b # <<>>) =>
    LET S == call.b[1]
    IN  /\ HasTicket(registry, TICKET) => call.exits = {}
        /\ call.wrote =>
             registry.rows[FirstRow(registry, TICKET)].skipped_tests = SkipField(S)
        /\ call.loaded[TICKET] # <<>> =>
             LET got == call.loaded[TICKET][1]
             IN  /\ (S # {} /\ \A id \in S : WellFormedIdentity(id)) => got = S
                 /\ { id \in S : WellFormedIdentity(id) } \subseteq got
                 /\ Cardinality(got) <= Cardinality(S) + 1

\* Two well-formed identities, one with a "#" in the method and one with an empty
\* method, written to a registry that had no skipped_tests column and loaded back.
C14_Witness ==
  /\ call.op = "skip_list" /\ call.wrote
  /\ call.b = << { <<<<"A">>, <<"x", "#", "y">>>>, <<<<"B">>, <<>>>> } >>
  /\ call.loaded[TICKET] = call.b
  /\ Len(registry.rows) = 2

\* The identities the fragments a cell was assembled from stand for.
Expected(frags) == { frags[i].id[1] : i \in { k \in 1..Len(frags) : frags[k].id # <<>> } }

\* C15: load_skip for a ticket that has a row returns the identities of the cell's
\* Class#method fragments, fragments separated by commas or newlines, with every empty,
\* blank, comment or "#"-free fragment left out without complaint, so possibly the empty
\* set, also when the column is absent; for a ticket without a row it ends the process
\* and returns nothing.
C15_LoadSkipKnownVersusUnknown ==
  (call.op = "skip_list" /\ call.b = <<>>) =>
    /\ HasTicket(registry, TICKET) =>
         /\ <<"load_skip", TICKET>> \notin call.exits
         /\ call.loaded[TICKET] # <<>> => call.loaded[TICKET][1] = Expected(call.frags)
    /\ ~HasTicket(registry, TICKET) => call.loaded[TICKET] = <<>>
    /\ \A t \in call.tickets :
         <<"load_skip", t>> \in call.exits => ~HasTicket(registry, t)

\* A row whose cell holds a comment and a fragment without "#", one per line: the empty
\* set is returned.
C15_Witness ==
  /\ call.op = "skip_list" /\ call.b = <<>>
  /\ Len(call.frags) = 2 /\ call.seps = <<"\n">>
  /\ call.frags[1].text = <<"#", " ", "x">> /\ call.frags[2].text = <<"A", "x">>
  /\ call.loaded[TICKET] = <<{}>>

\* "-Dtest=*" followed by ",!Class#method" for each member of S, the tokens in sorted
\* order; no filter for the empty set.
RECURSIVE Exclusions(_)
Exclusions(toks) ==
  IF toks = <<>> THEN <<>> ELSE <<",", "!">> \o Head(toks) \o Exclusions(Tail(toks))

FilterOf(S) ==
  IF S = {} THEN None
  ELSE DtestPrefix \o <<"*">> \o Exclusions(SortedStrs(TokensOf(S)))

\* Both load_skip and dtest have answered for ticket t.
Answered(t) ==
  /\ call.op = "skip_list" /\ t \in call.tickets
  /\ call.loaded[t] # <<>> /\ call.filter[t] # <<>>

\* The filter is a function of the skip set alone.
C16_FilterFunctionOfSkipSet ==
  /\ \A t \in {TICKET, OTHER_TICKET} :
       Answered(t) => call.filter[t][1] = FilterOf(call.loaded[t][1])
  /\ \A t1, t2 \in {TICKET, OTHER_TICKET} :
       (Answered(t1) /\ Answered(t2) /\ call.loaded[t1] = call.loaded[t2])
         => call.filter[t1] = call.filter[t2]

\* No token occurs twice in the ticket's cell.
NoRepeat(t) ==
  LET cell == RawField(registry.rows[FirstRow(registry, t)])
      toks == Pats(Fragments(cell))
  IN  \A i, j \in 1..Len(toks) : toks[i] = toks[j] => i = j

\* C16: for a registry cell that repeats no token (every cell write_skip wrote is one),
\* the filter is a function of the skip set the cell loads to: "-Dtest=*" followed by
\* one "!Class#method" exclusion per member of the set, in sorted order, and no filter
\* for the empty set; so any two such cells that load to the same set give filters
\* equal character by character.
C16_FilterOfNonRepeatingCells ==
  /\ \A t \in {TICKET, OTHER_TICKET} :
       (Answered(t) /\ NoRepeat(t)) => call.filter[t][1] = FilterOf(call.loaded[t][1])
  /\ \A t1, t2 \in {TICKET, OTHER_TICKET} :
       (Answered(t1) /\ Answered(t2) /\ NoRepeat(t1) /\ NoRepeat(t2)
          /\ call.loaded[t1] = call.loaded[t2])
         => call.filter[t1] = call.filter[t2]

\* Two cells of different text, one typed by hand in another order and with blanks, that
\* load to the same two identities and give the same filter.
C16_Witness ==
  /\ Answered(TICKET) /\ Answered(OTHER_TICKET)
  /\ NoRepeat(TICKET) /\ NoRepeat(OTHER_TICKET)
  /\ registry.rows[1].skipped_tests # registry.rows[2].skipped_tests
  /\ call.frags # <<>> /\ call.frags[1].text = <<"B", "#", "y", " ">>
  /\ call.loaded[TICKET] = call.loaded[OTHER_TICKET]
  /\ Cardinality(call.loaded[TICKET][1]) = 2
  /\ call.filter[TICKET] = call.filter[OTHER_TICKET]
  /\ call.filter[TICKET][1] =
       DtestPrefix \o <<"*", ",", "!", "A", "#", "x", ",", "!", "B", "#", "y">>

\* ================================================================ the scorer
\* pass_and_applied_rate of 5_measure_scores.py, called on one results table.

\* str.upper() on one character.
UpperCh(ch) ==
  CASE ch = "a" -> "A"
    [] ch = "b" -> "B"
    [] ch = "c" -> "C"
    [] ch = "d" -> "D"
    [] ch = "e" -> "E"
    [] ch = "f" -> "F"
    [] ch = "g" -> "G"
    [] ch = "h" -> "H"
    [] ch = "i" -> "I"
    [] ch = "j" -> "J"
    [] ch = "k" -> "K"
    [] ch = "l" -> "L"
    [] ch = "m" -> "M"
    [] ch = "n" -> "N"
    [] ch = "o" -> "O"
    [] ch = "p" -> "P"
    [] ch = "q" -> "Q"
    [] ch = "r" -> "R"
    [] ch = "s" -> "S"
    [] ch = "t" -> "T"
    [] ch = "u" -> "U"
    [] ch = "v" -> "V"
    [] ch = "w" -> "W"
    [] ch = "x" -> "X"
    [] ch = "y" -> "Y"
    [] ch = "z" -> "Z"
    [] OTHER -> ch

\* s.upper()
Upper(s) == [i \in 1..Len(s) |-> UpperCh(s[i])]

\* sub in s
Contains(s, sub) ==
  \E i \in 0..(Len(s) - Len(sub)) : SubSeq(s, i + 1, i + Len(sub)) = sub

\* The dicts of expected totals, in the order of their keys.
classic_totals ==
  << [key |-> <<"C", "F">>, val |-> 10], [key |-> <<"D", "M", "B">>, val |-> 3],
     [key |-> <<"E", "A", "K">>, val |-> 20] >>

tdd_totals ==
  << [key |-> <<"C", "F">>, val |-> 53], [key |-> <<"D", "M", "B">>, val |-> 43],
     [key |-> <<"E", "A", "K">>, val |-> 51] >>

\* Variant of TotalsFor: the TDD table whatever the file name.
TotalsForAlwaysTdd(s) == tdd_totals

\* totals = classic_totals if 'CLASSIC' in s else tdd_totals
TotalsFor(s) ==
  IF Contains(s, <<"C", "L", "A", "S", "S", "I", "C">>) THEN classic_totals ELSE tdd_totals

\* for key, val in totals.items(): if key in s: total = val; break
RECURSIVE Lookup(_, _, _)
Lookup(totals, s, total) ==
  IF totals = <<>> THEN total
  ELSE IF Contains(s, Head(totals).key) THEN Head(totals).val
  ELSE Lookup(Tail(totals), s, total)

\* status_pass & applied_true & neg_applied_true, for one row
RowPasses(r) ==
  /\ Upper(r.code_status) = <<"P", "A", "S", "S">>
  /\ Upper(Strip(r.code_applied)) = <<"T", "R", "U", "E">>
  /\ Upper(Strip(r.neg_applied)) = <<"T", "R", "U", "E">>

\* pass_and_applied_rate(csv_path) for a readable table with the three columns: None
\* for an empty table, else the fraction passes / total.
pass_and_applied_rate(stem, rows) ==
  IF Len(rows) = 0 THEN <<>>
  ELSE LET passes == Cardinality({ i \in 1..Len(rows) : RowPasses(rows[i]) })
           s      == Upper(stem)
       IN  << [num |-> passes, den |-> Lookup(TotalsFor(s), s, Len(rows))] >>

\* Most rows of a results table (the table of the scenario aside).
MaxRows == 2

\* File names (without .csv), each with what it says: the benchmark kind and the
\* dataset identifiers in it.
StemUniverse ==
  { [text |-> <<"t", "e", "s", "t", "_", "r", "e", "s", "u", "l", "t", "s", "-", "c", "l", "a", "s", "s", "i", "c", "_", "C", "F">>,  classic |-> TRUE,  ids |-> {"CF"}],
    [text |-> <<"t", "e", "s", "t", "_", "r", "e", "s", "u", "l", "t", "s", "-", "C", "l", "a", "s", "s", "i", "c", "_", "d", "m", "b">>, classic |-> TRUE,  ids |-> {"DMB"}],
    [text |-> <<"t", "e", "s", "t", "_", "r", "e", "s", "u", "l", "t", "s", "-", "t", "d", "d", "_", "E", "A", "K">>,     classic |-> FALSE, ids |-> {"EAK"}],
    [text |-> <<"t", "e", "s", "t", "_", "r", "e", "s", "u", "l", "t", "s", "-", "E", "A", "K", "_", "C", "F">>,      classic |-> FALSE, ids |-> {"EAK", "CF"}],
    [text |-> <<"t", "e", "s", "t", "_", "r", "e", "s", "u", "l", "t", "s", "-", "c", "l", "a", "s", "s", "i", "c">>,     classic |-> TRUE,  ids |-> {}],
    [text |-> <<"t", "e", "s", "t", "_", "r", "e", "s", "u", "l", "t", "s">>,             classic |-> FALSE, ids |-> {}] }

\* Cell texts as the batch driver writes them and as a hand may have left them.
StatusTexts == { <<"P", "A", "S", "S">>, <<"P", "a", "s", "s">>, <<"F", "A", "I", "L">> }

AppliedTexts == { <<"T", "r", "u", "e">>, <<" ", "t", "r", "u", "e", " ">>, <<"F", "a", "l", "s", "e">> }

PassRow == [code_status |-> <<"P", "A", "S", "S">>, code_applied |-> <<"T", "r", "u", "e">>, neg_applied |-> <<"T", "r", "u", "e">>]

FailRow == [code_status |-> <<"F", "A", "I", "L">>, code_applied |-> <<"T", "r", "u", "e">>, neg_applied |-> <<"T", "r", "u", "e">>]

\* The table of the scoring scenario: 8 rows, 5 of them passes.
ScenarioRows == <<PassRow, FailRow, PassRow, PassRow, FailRow, PassRow, FailRow, PassRow>>

ScoreInit ==
  /\ NoRun /\ targets = <<>> /\ batch = Idle
  /\ registry = [header |-> FALSE, rows |-> <<>>]
  /\ \E stem \in StemUniverse :
       \/ \E n \in 0..MaxRows :
            \E rows \in [1..n -> [code_status : StatusTexts, code_applied : AppliedTexts,
                                  neg_applied : AppliedTexts]] :
              call = [op |-> "score", stem |-> stem, rows |-> rows, scored |-> FALSE,
                      out |-> <<>>]
       \/ call = [op |-> "score", stem |-> stem, rows |-> ScenarioRows, scored |-> FALSE,
                  out |-> <<>>]

\* score = pass_and_applied_rate(csv_path)
CallRate ==
  /\ call.op = "score" /\ ~call.scored
  /\ call' = [call EXCEPT !.scored = TRUE,
                          !.out = pass_and_applied_rate(call.stem.text, call.rows)]
  /\ UNCHANGED <<runVars, targets, registry, batch>>

ScoreNext == CallRate

ScoreSpec == ScoreInit /\ [][ScoreNext]_vars

\* What the cells of a row say.
SaysPass(text) == text \in { <<"P", "A", "S", "S">>, <<"P", "a", "s", "s">> }

SaysTrue(text) == text \in { <<"T", "r", "u", "e">>, <<" ", "t", "r", "u", "e", " ">> }

PassCount(rows) ==
  Cardinality({ i \in 1..Len(rows) :
                  /\ SaysPass(rows[i].code_status)
                  /\ SaysTrue(rows[i].code_applied) /\ SaysTrue(rows[i].neg_applied) })

\* The expected total of the first of CF, DMB, EAK the file name holds.
ExpectedTotal(stem) ==
  LET id == IF "CF" \in stem.ids THEN "CF" ELSE IF "DMB" \in stem.ids THEN "DMB" ELSE "EAK"
  IN  CASE id = "CF"  -> IF stem.classic THEN 10 ELSE 53
        [] id = "DMB" -> IF stem.classic THEN 3 ELSE 43
        [] id = "EAK" -> IF stem.classic THEN 20 ELSE 51

Scored == call.op = "score" /\ call.scored /\ call.out # <<>>

\* The rate is the passes over an expected total of the lookup tables, whatever the
\* file name, never over the number of rows.
C17_RateOverExpectedTotal ==
  Scored =>
    /\ call.out[1].num = PassCount(call.rows)
    /\ call.out[1].den \in {10, 3, 20, 53, 43, 51}

\* C17: a row counts as a pass iff code_status is PASS and code_applied and neg_applied
\* are TRUE; the rate is the passes over the expected total of the first dataset
\* identifier (CF, DMB, EAK) in the file name, from the classic table when the name
\* holds CLASSIC, whatever the number of rows; only when the name holds no identifier
\* is it the passes over the number of rows. An empty table has no rate.
C17_RateOverTotalOrRows ==
  (call.op = "score" /\ call.scored) =>
    /\ call.out = <<>> <=> Len(call.rows) = 0
    /\ call.out # <<>> =>
         /\ call.out[1].num = PassCount(call.rows)
         /\ call.out[1].den =
              IF call.stem.ids = {} THEN Len(call.rows) ELSE ExpectedTotal(call.stem)

\* The scenario: 8 rows, 5 passes, classic CF, expected total 10: the rate is 5/10.
C17_Witness ==
  /\ Scored /\ Len(call.rows) = 8
  /\ call.stem.classic /\ call.stem.ids = {"CF"}
  /\ call.out = << [num |-> 5, den |-> 10] >>

\* ====================================================== the report parser
\* surefire_stats and red_tests called directly on report trees.

\* Most report files of a tree whose counters are read.
MaxFiles == 2

\* Most test cases of a tree whose red tests are collected.
MaxTestCases == 2

\* Report files as far as surefire_stats reads them: the root attributes (an attribute
\* that is not there reads as 0), and files that do not parse, whatever they hold.
StatFiles ==
  [ok : {TRUE}, tests : 0..2, failures : 0..1, errors : 0..1, skipped : 0..1, cases : {<<>>}]
  \union
  { [ok |-> FALSE, tests |-> 2, failures |-> 1, errors |-> 1, skipped |-> 1, cases |-> <<>>] }

\* Test cases as surefire reports them, in parts: package prefix, class, method, the
\* suffix of a parameterized invocation, and the child element of a red case.
CaseUniverse ==
  { [pkg |-> <<"p", ".">>, cls |-> <<"A">>, meth |-> <<"x">>, suffix |-> <<>>,                marker |-> "failure"],
    [pkg |-> <<"p", ".">>, cls |-> <<"A">>, meth |-> <<"x">>, suffix |-> <<"[", "1", "]">>,   marker |-> "failure"],
    [pkg |-> <<"p", ".">>, cls |-> <<"A">>, meth |-> <<"x">>, suffix |-> <<"[", "2", "]">>,   marker |-> "error"],
    [pkg |-> <<"p", ".">>, cls |-> <<"A">>, meth |-> <<"x">>, suffix |-> <<"{", "1", "}">>,   marker |-> "failure"],
    [pkg |-> <<"p", ".">>, cls |-> <<"A">>, meth |-> <<"x">>, suffix |-> <<"{", "1", "}", "[", "1", "]">>, marker |-> "none"],
    [pkg |-> <<>>,         cls |-> <<"A">>, meth |-> <<"y">>, suffix |-> <<>>,                marker |-> "none"],
    [pkg |-> <<"p", ".", "q", ".">>, cls |-> <<"B">>, meth |-> <<"y">>, suffix |-> <<"[", "1", "]">>, marker |-> "error"],
    [pkg |-> <<"p", ".">>, cls |-> <<"A">>, meth |-> <<"y">>, suffix |-> <<"{", "1", "}">>,   marker |-> "none"] }

\* The <testcase> element of a case.
CaseNode(c) ==
  [classname |-> c.pkg \o c.cls, name |-> c.meth \o c.suffix,
   failure |-> c.marker = "failure", error |-> c.marker = "error"]

\* The report file of a sequence of cases.
CaseFile(cs) ==
  [ok       |-> TRUE,
   tests    |-> Len(cs),
   failures |-> Cardinality({ i \in 1..Len(cs) : cs[i].marker = "failure" }),
   errors   |-> Cardinality({ i \in 1..Len(cs) : cs[i].marker = "error" }),
   skipped  |-> 0,
   cases    |-> [i \in 1..Len(cs) |-> CaseNode(cs[i])]]

\* A report file cut short by a crashed test run: it does not parse; the part that is
\* there shows a red case.
TruncatedFile ==
  [ok |-> FALSE, tests |-> 1, failures |-> 1, errors |-> 0, skipped |-> 0,
   cases |-> << [classname |-> <<"p", ".", "B">>, name |-> <<"z">>,
                 failure |-> TRUE, error |-> FALSE] >>]

\* Nothing was asked of the report parser yet.
FreshReports(cs) ==
  [op    |-> "reports",
   cases |-> cs,       \* the cases of the parseable files of the tree
   stats |-> <<>>,     \* <<s>> once surefire_stats has returned s
   red   |-> <<>>]     \* <<S>> once red_tests has returned S

\* A tree of up to MaxFiles files with counters, or the cases of a run spread over two
\* files with or without a truncated file between them; no files at all when the
\* report directories are missing.
ReportInit ==
  /\ NoRun /\ batch = Idle
  /\ registry = [header |-> FALSE, rows |-> <<>>]
  /\ \/ \E n \in 0..MaxFiles :
          \E files \in [1..n -> StatFiles] :
            targets = files /\ call = FreshReports(<<>>)
     \/ \E n \in 1..MaxTestCases :
          \E cs \in [1..n -> CaseUniverse], k \in 0..n, cut \in BOOLEAN :
            /\ targets = <<CaseFile(SubSeq(cs, 1, k))>>
                         \o (IF cut THEN <<TruncatedFile>> ELSE <<>>)
                         \o <<CaseFile(SubSeq(cs, k + 1, n))>>
            /\ call = FreshReports(cs)

\* surefire_stats()
CallSurefireStats ==
  /\ call.op = "reports" /\ call.stats = <<>>
  /\ call' = [call EXCEPT !.stats = <<surefire_stats(targets)>>]
  /\ UNCHANGED <<runVars, targets, registry, batch>>

\* red_tests()
CallRedTests ==
  /\ call.op = "reports" /\ call.red = <<>>
  /\ call' = [call EXCEPT !.red = <<red_tests(targets)>>]
  /\ UNCHANGED <<runVars, targets, registry, batch>>

ReportNext == CallSurefireStats \/ CallRedTests

ReportSpec == ReportInit /\ [][ReportNext]_vars

\* Sum of counter a over the parseable ones of the first n files.
RECURSIVE SumOf(_, _, _)
SumOf(files, a, n) ==
  IF n = 0 THEN 0
  ELSE SumOf(files, a, n - 1) + (IF files[n].ok THEN files[n][a] ELSE 0)

\* C18: surefire_stats returns, counter by counter, the sum of tests, failures, errors and
\* skipped over the report files that parse; a file that does not parse adds nothing
\* to any counter and does not stop the call; without report files every counter is 0.
C18_StatsSumOverParseableFiles ==
  (call.op = "reports" /\ call.stats # <<>>) =>
    LET n == Len(targets)
    IN  /\ call.stats[1] = Stats(SumOf(targets, "tests", n), SumOf(targets, "failures", n),
                                 SumOf(targets, "errors", n), SumOf(targets, "skipped", n))
        /\ (\A i \in 1..n : ~targets[i].ok) => call.stats[1] = ZeroStats

\* An unparseable file with non-zero counters before a parseable one: the result is the
\* counters of the parseable one.
C18_Witness ==
  /\ call.op = "reports" /\ call.stats # <<>>
  /\ Len(targets) = 2 /\ ~targets[1].ok /\ targets[1].tests > 0 /\ targets[2].ok
  /\ call.stats[1] = Stats(2, 1, 0, 1)

\* C19: red_tests returns exactly the (class, method) pairs of the test cases with a
\* <failure> or <error> child in the files that parse: the class without its package,
\* the method without the bracketed or braced suffix of the invocation; so the red
\* invocations of one parameterized method make one pair, and a case without such a
\* child adds none.
C19_RedTestsAreMarkedIdentities ==
  (call.op = "reports" /\ call.red # <<>>) =>
    call.red[1] = { <<call.cases[i].cls, call.cases[i].meth>> :
                      i \in { k \in 1..Len(call.cases) : call.cases[k].marker # "none" } }

\* Two red invocations of A.x under different suffixes, next to a truncated file: one
\* identity.
C19_Witness ==
  /\ call.op = "reports" /\ call.red = << { <<<<"A">>, <<"x">>>> } >>
  /\ Len(call.cases) = 2
  /\ \A i \in 1..2 : call.cases[i].marker # "none" /\ call.cases[i].suffix # <<>>
  /\ call.cases[1].suffix # call.cases[2].suffix
  /\ Len(targets) = 3

\* ========================================================= the batch driver
\* main() of 4_run_all_tickets.py: the pipeline of one ticket is a subprocess whose
\* exit status and output the driver takes as they come.

IsDigit(ch) == ch \in {"0", "1", "2", "3", "4", "5", "6", "7", "8", "9"}

\* re.search(r"(\d+)", key).group(1): the first run of digits (<<>>: no match).
FirstDigits(key) ==
  IF \A i \in 1..Len(key) : ~IsDigit(key[i]) THEN <<>>
  ELSE LET a == CHOOSE i \in 1..Len(key) :
                  IsDigit(key[i]) /\ \A j \in 1..(i - 1) : ~IsDigit(key[j])
           b == CHOOSE i \in a..Len(key) :
                  /\ \A j \in a..i : IsDigit(key[j])
                  /\ (i = Len(key) \/ ~IsDigit(key[i + 1]))
       IN  SubSeq(key, a, b)

DigitValue(ch) ==
  CASE ch = "0" -> 0 [] ch = "1" -> 1 [] ch = "2" -> 2 [] ch = "3" -> 3 [] ch = "4" -> 4
    [] ch = "5" -> 5 [] ch = "6" -> 6 [] ch = "7" -> 7 [] ch = "8" -> 8 [] ch = "9" -> 9

\* int(digits)
RECURSIVE ParseInt(_)
ParseInt(ds) ==
  IF ds = <<>> THEN 0 ELSE 10 * ParseInt(SubSeq(ds, 1, Len(ds) - 1)) + DigitValue(ds[Len(ds)])

\* ticket_num(key)
ticket_num(key) == IF FirstDigits(key) = <<>> THEN -1 ELSE ParseInt(FirstDigits(key))

EndsWith(s, suf) == Len(suf) <= Len(s) /\ SubSeq(s, Len(s) - Len(suf) + 1, Len(s)) = suf

DiffExt == <<".", "d", "i", "f", "f">>

PatchExt == <<".", "p", "a", "t", "c", "h">>

\* name matches the glob pattern "*" + key + "*" + ext
GlobMatch(name, key, ext) ==
  EndsWith(name, ext) /\ Contains(SubSeq(name, 1, Len(name) - Len(ext)), key)

\* The names of `seen` order removed from list l.
Unseen(l, seen) == SelectSeq(l, LAMBDA n : n \notin seen)

\* The loop over the patterns: the sorted matches of each, AppleDouble files and files
\* already matched left out.
RECURSIVE Matches(_, _, _)
Matches(patterns, files, seen) ==
  IF patterns = <<>> THEN <<>>
  ELSE LET pat  == Head(patterns)
           hits == SortedStrs({ n \in files :
                                  /\ GlobMatch(n, pat[1], pat[2])
                                  /\ ~(Len(n) >= 2 /\ SubSeq(n, 1, 2) = <<".", "_">>) })
           new  == Unseen(hits, seen)
       IN  new \o Matches(Tail(patterns), files, seen \union SeqToSet(new))

\* find_patch_file(ticket, directory): the first match, or None.
find_patch_file(ticket, files) ==
  LET num      == FirstDigits(ticket)
      patterns == << <<ticket, DiffExt>>, <<ticket, PatchExt>> >>
                  \o (IF num # <<>> THEN << <<num, DiffExt>>, <<num, PatchExt>> >> ELSE <<>>)
      matches  == Matches(patterns, files, {})
  IN  IF matches = <<>> THEN None ELSE matches[1]

\* _has_patch_files(d)
has_patch_files(files) ==
  \E n \in files : EndsWith(Upper(n), Upper(DiffExt)) \/ EndsWith(Upper(n), Upper(PatchExt))

\* Most rows of pr_states.csv the driver goes through.
MaxTickets == 2

K7 == <<"K", "-", "7">>

K17 == <<"K", "-", "1", "7">>

TicketKeys == {K7, K17}

\* Contents a directory of patches can have.
PatchDirs ==
  { {},
    { <<"K", "-", "7", ".", "d", "i", "f", "f">> },
    { <<"K", "-", "1", "7", ".", "p", "a", "t", "c", "h">> },
    { <<"K", "-", "7", ".", "d", "i", "f", "f">>, <<"K", "-", "1", "7", ".", "p", "a", "t", "c", "h">> },
    { <<"a", "_", "7", ".", "p", "a", "t", "c", "h">> },
    { <<".", "_", "K", "-", "7", ".", "d", "i", "f", "f">>, <<"K", "-", "7", ".", "t", "x", "t">> } }

\* What --ai-patches-dir points at: patch files, or sub-directories of them (sorted).
Layouts ==
  { [files |-> d, subdirs |-> <<>>] : d \in PatchDirs }
  \union
  { [files |-> {},
     subdirs |-> << [name |-> "s1", files |-> { <<"K", "-", "7", ".", "d", "i", "f", "f">> }],
                    [name |-> "s2", files |-> { <<"K", "-", "7", ".", "p", "a", "t", "c", "h">>, <<"K", "-", "1", "7", ".", "d", "i", "f", "f">> }] >>] }

\* What a results table of an earlier run says of a ticket.
PrevRows ==
  { [neg_status |-> "FAIL", code_status |-> "PASS"],
    [neg_status |-> "PASS", code_status |-> "PASS"],
    [neg_status |-> "none", code_status |-> "none"] }   \* no row for the ticket

BatchInit ==
  /\ NoRun /\ targets = <<>> /\ call = Idle
  /\ registry = [header |-> FALSE, rows |-> <<>>]
  /\ \E ai \in BOOLEAN, given \in BOOLEAN, n \in 0..MaxTickets :
       \E tickets \in [1..n -> TicketKeys], layout \in Layouts,
          tests \in SUBSET TicketKeys, prev \in [TicketKeys -> PrevRows] :
         /\ ai => tests = {}
         /\ ~ai => ~given /\ \A t \in TicketKeys : prev[t].neg_status = "none"
         /\ ~given => layout = [files |-> {}, subdirs |-> <<>>]
         /\ batch = [op       |-> "batch",
                     pc       |-> "validate",
                     ai       |-> ai,          \* --ai
                     given    |-> given,       \* --ai-patches-dir
                     layout   |-> layout,      \* the directory --ai-patches-dir names
                     tests    |-> tests,       \* tickets with a non-empty <ticket>_test.diff
                     tickets  |-> tickets,     \* the ticket column of pr_states.csv
                     prev     |-> prev,        \* test_results.csv of an earlier run
                     sets     |-> <<>>,        \* patch_sets
                     s        |-> 1,           \* the patch set at hand
                     i        |-> 1,           \* the ticket at hand
                     attempts |-> <<>>,        \* history: the calls of run_ticket
                     results  |-> {},          \* the per-ticket CSV files written
                     merged   |-> <<>>,        \* the merged tables written
                     exit     |-> <<>>]

\* validate ai arguments
BatchValidate ==
  /\ batch.op = "batch" /\ batch.pc = "validate"
  /\ IF batch.ai /\ ~batch.given
     THEN batch' = [batch EXCEPT !.pc = "exit", !.exit = <<1>>]
     ELSE batch' = [batch EXCEPT !.pc = "patch_sets"]
  /\ UNCHANGED <<runVars, targets, registry, call>>

\* determine patch sets, then collect tickets (the ticket column is in batch.tickets)
BatchPatchSets ==
  /\ batch.op = "batch" /\ batch.pc = "patch_sets"
  /\ LET top  == [name |-> "top", files |-> batch.layout.files]
         sets == IF batch.ai /\ ~has_patch_files(batch.layout.files)
                 THEN batch.layout.subdirs ELSE <<top>>
     IN  IF sets = <<>>
         THEN batch' = [batch EXCEPT !.pc = "exit", !.exit = <<1>>]
         ELSE batch' = [batch EXCEPT !.pc = "loop", !.sets = sets]
  /\ UNCHANGED <<runVars, targets, registry, call>>

\* label = pset.name if len(patch_sets) > 1 else ""
Label == IF Len(batch.sets) > 1 THEN batch.sets[batch.s].name ELSE ""

\* What happens to the subprocess of a ticket: it cannot be started or its log cannot
\* be written (an exception), or it ends with some exit status.
Outcomes == {"exception", "exit0", "exit1"}

\* Variant of run_ticket's call site in which a failed ticket ends the loop over
\* the tickets of the patch set.
BatchRunTicketStoppingOnFailure ==
  /\ batch.op = "batch" /\ batch.pc = "loop" /\ batch.i <= Len(batch.tickets)
  /\ LET ticket == batch.tickets[batch.i]
         files  == batch.sets[batch.s].files
         patch  == IF batch.ai THEN find_patch_file(ticket, files)
                   ELSE ticket \o <<"_", "n", "o", "n", "_", "t", "e", "s", "t", ".", "d", "i", "f", "f">>
         att(how) == [set |-> batch.s, ticket |-> ticket, patch |-> patch, how |-> how]
         last == Len(batch.tickets) + 1
     IN  IF patch = None
         THEN batch' = [batch EXCEPT !.i = last, !.attempts = Append(@, att("no_patch"))]
         ELSE IF ~batch.ai /\ ticket \notin batch.tests
         THEN batch' = [batch EXCEPT !.i = last, !.attempts = Append(@, att("no_test_patch"))]
         ELSE \E o \in Outcomes :
                batch' = [batch EXCEPT
                            !.i = IF o = "exit0" THEN @ + 1 ELSE last,
                            !.attempts = Append(@, att(o)),
                            !.results = IF o = "exception" THEN @
                                        ELSE @ \union {<<ticket, Label>>}]
  /\ UNCHANGED <<runVars, targets, registry, call>>

\* run_ticket(ticket, pset, args.ai, label) inside try/except Exception.
BatchRunTicket ==
  /\ batch.op = "batch" /\ batch.pc = "loop" /\ batch.i <= Len(batch.tickets)
  /\ LET ticket == batch.tickets[batch.i]
         files  == batch.sets[batch.s].files
         patch  == IF batch.ai THEN find_patch_file(ticket, files)
                   ELSE ticket \o <<"_", "n", "o", "n", "_", "t", "e", "s", "t", ".", "d", "i", "f", "f">>
         att(how) == [set |-> batch.s, ticket |-> ticket, patch |-> patch, how |-> how]
     IN  IF patch = None
         THEN batch' = [batch EXCEPT !.i = @ + 1, !.attempts = Append(@, att("no_patch"))]
         ELSE IF ~batch.ai /\ ticket \notin batch.tests
         THEN batch' = [batch EXCEPT !.i = @ + 1, !.attempts = Append(@, att("no_test_patch"))]
         ELSE \E o \in Outcomes :
                batch' = [batch EXCEPT
                            !.i = @ + 1,
                            !.attempts = Append(@, att(o)),
                            !.results = IF o = "exception" THEN @
                                        ELSE @ \union {<<ticket, Label>>}]
  /\ UNCHANGED <<runVars, targets, registry, call>>

\* rows.sort(key=row_key, reverse=True) on the tickets of a set of files.
RECURSIVE SortedByNumDesc(_)
SortedByNumDesc(S) ==
  IF S = {} THEN <<>>
  ELSE LET m == CHOOSE x \in S : \A y \in S : ticket_num(y) <= ticket_num(x)
       IN  <<m>> \o SortedByNumDesc(S \ {m})

\* merge_results(label), then the next patch set.
BatchMerge ==
  /\ batch.op = "batch" /\ batch.pc = "loop" /\ batch.i > Len(batch.tickets)
  /\ LET rows == SortedByNumDesc({ r[1] : r \in { x \in batch.results : x[2] = Label } })
     IN  batch' = [batch EXCEPT
                     !.merged = IF rows = <<>> THEN @
                                ELSE Append(@, [label |-> Label, rows |-> rows]),
                     !.s  = @ + 1,
                     !.i  = 1,
                     !.pc = IF batch.s = Len(batch.sets) THEN "done" ELSE "loop"]
  /\ UNCHANGED <<runVars, targets, registry, call>>

BatchNext == BatchValidate \/ BatchPatchSets \/ BatchRunTicket \/ BatchMerge

BatchSpec == BatchInit /\ [][BatchNext]_vars

\* The tickets whose pipeline the driver started.
Ran == { batch.attempts[k].ticket :
           k \in { j \in 1..Len(batch.attempts) :
                     batch.attempts[j].how \in {"exit0", "exit1"} } }

\* C20: in --ai mode the pipeline is started only for tickets that the results table of
\* an earlier run records with neg_status FAIL and code_status PASS.
C20_AiRunsOnlyFilteredTickets ==
  (batch.op = "batch" /\ batch.ai) =>
    \A t \in Ran : batch.prev[t].neg_status = "FAIL" /\ batch.prev[t].code_status = "PASS"

\* ------------------------------------------------------------ patch lookup

\* The ticket a file of PatchDirs and Layouts was made for: K-17 when its name holds 17,
\* K-7 otherwise.
OwnerOf(name) == IF Contains(name, <<"1", "7">>) THEN K17 ELSE K7

\* The files of a directory find_patch_file may return.
Eligible(files) ==
  { n \in files : /\ EndsWith(n, DiffExt) \/ EndsWith(n, PatchExt)
                  /\ ~(Len(n) >= 2 /\ SubSeq(n, 1, 2) = <<".", "_">>) }

\* C21: the patch find_patch_file returns for a ticket is a patch file of the directory
\* that belongs to that ticket, one with the full ticket key in its name when there is
\* such a file and else one with the ticket's number; never the file of another ticket
\* whose number only contains the requested number (K-17 for K-7); and None exactly
\* when the directory has no file of the ticket.
C21_PatchBelongsToTicket ==
  (batch.op = "batch" /\ batch.ai) =>
    \A k \in 1..Len(batch.attempts) :
      LET a     == batch.attempts[k]
          files == Eligible(batch.sets[a.set].files)
          mine  == { n \in files : OwnerOf(n) = a.ticket }
      IN  /\ a.patch = None <=> mine = {}
          /\ a.patch # None =>
               /\ a.patch \in mine
               /\ (\E n \in mine : Contains(n, a.ticket)) => Contains(a.patch, a.ticket)

\* ------------------------------------------------------ write_skip's frame

\* This step is a write_skip call that returned.
WriteReturned == call.op = "skip_list" /\ ~call.wrote /\ call'.wrote

\* This step is a write_skip call that ended in sys.exit.
WriteExited ==
  /\ call.op = "skip_list"
  /\ <<"write_skip", TICKET>> \in call'.exits \ call.exits

\* C22: write_skip for the ticket changes, of the registry, only the skipped_tests cell
\* of the ticket's (first) row, which becomes the joined tokens: the rows are the same
\* in number and order, the cell of every other row reads as before, and ticket,
\* before_commit and merge_commit of every row are as before; when no row has the
\* ticket the call ends the process and the registry is as it was. No other call
\* changes the registry.
C22_WriteSkipFrame ==
  [][ /\ WriteReturned =>
           /\ HasTicket(registry, TICKET)
           /\ Len(registry'.rows) = Len(registry.rows)
           /\ \A i \in 1..Len(registry.rows) :
                /\ registry'.rows[i].ticket = registry.rows[i].ticket
                /\ registry'.rows[i].before_commit = registry.rows[i].before_commit
                /\ registry'.rows[i].merge_commit = registry.rows[i].merge_commit
                /\ IF i = FirstRow(registry, TICKET)
                   THEN registry'.rows[i].skipped_tests = SkipField(call.b[1])
                   ELSE RawField(registry'.rows[i]) = RawField(registry.rows[i])
      /\ WriteExited => ~HasTicket(registry, TICKET) /\ registry' = registry
      /\ ~WriteReturned => registry' = registry ]_vars

\* A set written to a registry of three rows: the first row of the ticket holds it, the
\* row of the other ticket and the second row of the ticket hold what they held.
C22_Witness ==
  /\ call.op = "skip_list" /\ call.wrote
  /\ call.b = << { <<<<"A">>, <<"x">>>>, <<<<"B">>, <<"y">>>> } >>
  /\ Len(registry.rows) = 3
  /\ registry.rows[1].skipped_tests = <<"A", "#", "x", ",", "B", "#", "y">>
  /\ registry.rows[2] = OtherRow(<<"A", "#", "x">>)
  /\ registry.rows[3] = Row(TICKET, BASE, MERGE, <<"A", "#", "x">>)

\* The attempts made so far, as the loops of main order them: patch set after
\* patch set, and within one patch set the tickets in registry order.
AttemptsInOrder ==
  LET n == Len(batch.tickets)
  IN  \A k \in 1..Len(batch.attempts) :
        /\ batch.attempts[k].set = ((k - 1) \div n) + 1
        /\ batch.attempts[k].ticket = batch.tickets[((k - 1) % n) + 1]

AttemptsOfSet(s) ==
  SelectSeq(batch.attempts, LAMBDA a : a.set = s)

TicketsOf(atts) ==
  [k \in 1..Len(atts) |-> atts[k].ticket]

=============================================================================
